---- MODULE Spec2Model ----
(***************************************************************************)
(* CenterCrop (kornia/augmentation/_2d/geometric/center_crop.py).          *)
(*                                                                         *)
(* The operator object holds a frozen configuration (size, flags,          *)
(* same_on_batch).  The augmentation pipeline drives it through            *)
(* generate_parameters, compute_transformation, apply_transform and        *)
(* inverse_transform; the pipeline's current input, parameter mapping,     *)
(* transform and the value returned (or error raised) by the last call are *)
(* the rest of the state.                                                  *)
(*                                                                         *)
(* Tensors are records [kind, shape, data]: shape is <<B, C, H, W>> and    *)
(* data maps zero-based <<b, c, y, x>> to an integer pixel value.          *)
(* Python's zero-based src[i, k, j] is Src(params, i, k, j) below.         *)
(***************************************************************************)
EXTENDS Integers, Sequences, FiniteSets, TLC

VARIABLES size, flags, same_on_batch,
          input, params, origin, transform,
          out, inv, invArgs, err, op, calls, firstOut

vars == <<size, flags, same_on_batch, input, params, origin, transform,
          out, inv, invArgs, err, op, calls, firstOut>>

(* ------------------------------ bounds --------------------------------- *)

\* largest batch size of an input
MaxB == 2
\* largest channel count of an input
MaxC == 2
\* largest input height and width
MaxDim == 4
\* largest crop height and width given to the constructor
MaxCrop == 3
\* apply_transform calls followed on one parameter mapping
MaxCalls == 2

(* ------------------------------ values --------------------------------- *)

None == [kind |-> "None"]

NoError == [type |-> "NoError"]

IsTensor(t) == t.kind = "Tensor"

Min(a, b) == IF a < b THEN a ELSE b

Max(a, b) == IF a > b THEN a ELSE b

Idx(B, C, H, W) == (0 .. B - 1) \X (0 .. C - 1) \X (0 .. H - 1) \X (0 .. W - 1)

Tensor(B, C, H, W, f) == [kind |-> "Tensor", shape |-> <<B, C, H, W>>, data |-> f]

\* an input batch whose pixels are pairwise different and never zero, so that a
\* misplaced pixel or a padded one is visible in the output
Image(B, C, H, W) ==
    Tensor(B, C, H, W,
           [i \in Idx(B, C, H, W) |-> 1 + i[4] + W * i[3] + W * H * i[2] + W * H * C * i[1]])

Src(p, i, k, j) == p.src[i + 1][k + 1][j + 1]

Dst(p, i, k, j) == p.dst[i + 1][k + 1][j + 1]

(* --------------------------- construction ------------------------------ *)

\* the constructor's size argument: an int or a pair of ints
SizeArgs == [int : 1 .. MaxCrop] \cup [tuple : (1 .. MaxCrop) \X (1 .. MaxCrop)]

SizeOf(arg) ==
    IF DOMAIN arg = {"tuple"} THEN <<arg.tuple[1], arg.tuple[2]>>
    ELSE <<arg.int, arg.int>>

CroppingModes == {"slice", "resample", "other"}

MakeFlags(resample, cropping_mode, align_corners, sz) ==
    [resample |-> resample, cropping_mode |-> cropping_mode,
     align_corners |-> align_corners, size |-> sz]

Init ==
    \E arg \in SizeArgs, ac \in BOOLEAN, cm \in CroppingModes :
        /\ size = SizeOf(arg)
        /\ flags = MakeFlags("BILINEAR", cm, ac, SizeOf(arg))
        /\ same_on_batch = TRUE
        /\ input = None
        /\ params = None
        /\ origin = "none"
        /\ transform = None
        /\ out = None
        /\ inv = None
        /\ invArgs = None
        /\ err = NoError
        /\ op = "__init__"
        /\ calls = 0
        /\ firstOut = None

(* ----------------------- parameter generation -------------------------- *)

\* int(a / 2): Python's int() cuts a float toward zero
TruncHalf(n) == IF n >= 0 THEN n \div 2 ELSE -((-n) \div 2)

\* top-left, top-right, bottom-right, bottom-left, each <<x, y>>
Box(x1, y1, x2, y2) == <<<<x1, y1>>, <<x2, y1>>, <<x2, y2>>, <<x1, y2>>>>

\* rg.center_crop_generator: the same centre-aligned box for every sample; the
\* size is not compared with the input's
CenterCropGenerator(batch_size, height, width, sz) ==
    LET start_x == TruncHalf(width - sz[2])
        start_y == TruncHalf(height - sz[1])
        end_x == start_x + sz[2] - 1
        end_y == start_y + sz[1] - 1
    IN  [src |-> [i \in 1 .. batch_size |-> Box(start_x, start_y, end_x, end_y)],
         dst |-> [i \in 1 .. batch_size |-> Box(0, 0, sz[2] - 1, sz[1] - 1)]]

GenerateParametersOp(batch_shape, sz) ==
    CenterCropGenerator(batch_shape[1], batch_shape[3], batch_shape[4], sz)

\* a mapping the caller passes instead of a generated one: sample i's source
\* box moved by s[i] pixels along both axes
ShiftBox(b, d) == [k \in 1 .. 4 |-> <<b[k][1] + d, b[k][2] + d>>]

Shifted(p, s) ==
    [src |-> [i \in 1 .. Len(p.src) |-> ShiftBox(p.src[i], s[i])], dst |-> p.dst]

\* the mappings a caller derives from p: every box moved by one pixel, or only
\* the last sample's
CallerParams(p) ==
    LET n == Len(p.src)
    IN  {Shifted(p, [i \in 1 .. n |-> 1]),
         Shifted(p, [i \in 1 .. n |-> IF i = n THEN 1 ELSE 0])}

\* every corner of every source box is a pixel of an H x W input
InBounds(p, H, W) ==
    \A i \in 1 .. Len(p.src), k \in 1 .. 4 :
        p.src[i][k][1] \in 0 .. W - 1 /\ p.src[i][k][2] \in 0 .. H - 1

Uniform(p) == \A i \in 1 .. Len(p.src) : p.src[i] = p.src[1]

(* ------------------------- transform builder --------------------------- *)

\* get_perspective_transform for one sample: the boxes of the mappings above
\* are congruent, so the solve is the translation taking src to dst
PerspectiveOf(s, d) ==
    <<<<1, 0, d[1][1] - s[1][1]>>, <<0, 1, d[1][2] - s[1][2]>>, <<0, 0, 1>>>>

GetPerspectiveTransform(src, dst) == [i \in 1 .. Len(src) |-> PerspectiveOf(src[i], dst[i])]

\* Tensor.expand(n, -1, -1): a batch of one is repeated, a batch of n is kept
Expand(T, n) == IF Len(T) = n THEN T ELSE [i \in 1 .. n |-> T[1]]

Matrix(m) == [kind |-> "Matrix", m |-> m]

ComputeTransformationOp(inp, p) ==
    Matrix(Expand(GetPerspectiveTransform(p.src, p.dst), inp.shape[1]))

\* the matrix the pipeline hands to inverse_transform: the forward one inverted
InverseMatrix(T) ==
    IF T = None THEN None
    ELSE Matrix([i \in 1 .. Len(T.m) |->
                    <<<<1, 0, -T.m[i][1][3]>>, <<0, 1, -T.m[i][2][3]>>, <<0, 0, 1>>>>])

(* ---------------------------- warp kernel ------------------------------ *)

Clamp(v, n) == Max(0, Min(v, n - 1))

\* the pixel read at source position (y, x): zero or the nearest edge pixel
\* when the position lies outside the tensor
Sample(t, b, c, y, x, padding_mode) ==
    LET H == t.shape[3]
        W == t.shape[4]
    IN  IF y \in 0 .. H - 1 /\ x \in 0 .. W - 1 THEN t.data[<<b, c, y, x>>]
        ELSE IF padding_mode = "border" THEN t.data[<<b, c, Clamp(y, H), Clamp(x, W)>>]
        ELSE 0

\* crop_by_transform_mat: output pixel (y, x) of sample b is read where the
\* 2x3 matrix M[b] sends it from, i.e. at (y - ty, x - tx)
CropByTransformMat(t, M, sz, mode, padding_mode, align_corners) ==
    Tensor(t.shape[1], t.shape[2], sz[1], sz[2],
           [i \in Idx(t.shape[1], t.shape[2], sz[1], sz[2]) |->
               Sample(t, i[1], i[2], i[3] - M[i[1] + 1][2][3], i[4] - M[i[1] + 1][1][3],
                      padding_mode)])

\* transform[:, :2, :]
TopRows(T) == [i \in 1 .. Len(T.m) |-> SubSeq(T.m[i], 1, 2)]

\* Resample.name.lower()
Lower(name) == IF name = "BILINEAR" THEN "bilinear"
               ELSE IF name = "NEAREST" THEN "nearest" ELSE "bicubic"

(* --------------------------- apply_transform --------------------------- *)

Raised(type, msg) == [type |-> type, msg |-> msg]

Returned(t) == [out |-> t, err |-> NoError]

Failed(e) == [out |-> None, err |-> e]

\* the indices a Python slice start:stop selects from a dimension of length n
SliceStart(n, start) == IF start < 0 THEN Max(start + n, 0) ELSE Min(start, n)

SliceLen(n, start, stop) == Max(0, SliceStart(n, stop) - SliceStart(n, start))

\* input[lo:hi, :, y1:y2, x1:x2] with 0 <= lo <= hi <= B
SliceTensor(t, lo, hi, y1, y2, x1, x2) ==
    LET H == t.shape[3]
        W == t.shape[4]
        sy == SliceStart(H, y1)
        sx == SliceStart(W, x1)
        ny == SliceLen(H, y1, y2)
        nx == SliceLen(W, x1, x2)
    IN  Tensor(hi - lo, t.shape[2], ny, nx,
               [i \in Idx(hi - lo, t.shape[2], ny, nx) |->
                   t.data[<<lo + i[1], i[2], sy + i[3], sx + i[4]>>]])

X1(p, i) == Src(p, i, 0, 0)

\* x2 without the + 1 that makes the end corner exclusive
X2Inclusive(p, i) == Src(p, i, 1, 0)

X2(p, i) == Src(p, i, 1, 0) + 1

\* y1 read from the x column of the corner
Y1FromX(p, i) == Src(p, i, 0, 0)

Y1(p, i) == Src(p, i, 0, 1)

Y2(p, i) == Src(p, i, 3, 1) + 1

\* input[..., y1[0]:y2[0], x1[0]:x2[0]]
SharedSlice(inp, p) ==
    SliceTensor(inp, 0, inp.shape[1], Y1(p, 0), Y2(p, 0), X1(p, 0), X2(p, 0))

\* out[i] = input[i:i+1, :, y1[i]:y2[i], x1[i]:x2[i]] for every i: the pieces
\* must have out[i]'s size, or size one where they are stretched
PerSampleLoop(inp, p, sz) ==
    LET B == inp.shape[1]
        C == inp.shape[2]
        piece(i) == SliceTensor(inp, i, i + 1, Y1(p, i), Y2(p, i), X1(p, i), X2(p, i))
        fits(i) == /\ piece(i).shape[3] \in {sz[1], 1}
                   /\ piece(i).shape[4] \in {sz[2], 1}
    IN  IF \A i \in 0 .. B - 1 : fits(i)
        THEN Returned(Tensor(B, C, sz[1], sz[2],
                 [i \in Idx(B, C, sz[1], sz[2]) |->
                     piece(i[1]).data[<<0, i[2],
                         IF piece(i[1]).shape[3] = 1 THEN 0 ELSE i[3],
                         IF piece(i[1]).shape[4] = 1 THEN 0 ELSE i[4]>>]]))
        ELSE Failed(Raised("RuntimeError", "shape mismatch"))

\* the slice branch choosing by the coordinates instead of by same_on_batch
ApplySliceByCoordinates(inp, p, f, sob) ==
    IF Uniform(p) THEN Returned(SharedSlice(inp, p)) ELSE PerSampleLoop(inp, p, f.size)

ApplySlice(inp, p, f, sob) ==
    IF sob THEN Returned(SharedSlice(inp, p)) ELSE PerSampleLoop(inp, p, f.size)

ApplyResample(inp, T, sz, f) ==
    Returned(CropByTransformMat(inp, TopRows(T), sz, Lower(f.resample), "zeros",
                                f.align_corners))

\* every mode but "resample" taken for "slice"
ApplyTransformOpElseSlice(inp, p, T, sz, f, sob) ==
    IF f.cropping_mode = "resample" THEN ApplyResample(inp, T, sz, f)
    ELSE ApplySlice(inp, p, f, sob)

ApplyTransformOp(inp, p, T, sz, f, sob) ==
    IF f.cropping_mode = "resample" THEN ApplyResample(inp, T, sz, f)
    ELSE IF f.cropping_mode = "slice" THEN ApplySlice(inp, p, f, sob)
    ELSE Failed(Raised("NotImplementedError",
                       "Not supported type: " \o f.cropping_mode \o "."))

(* -------------------------- inverse_transform -------------------------- *)

\* the keyword overrides a caller may pass: the keys in "given" are present
Kw(given, mode, align_corners, padding_mode) ==
    [given |-> given, mode |-> mode, align_corners |-> align_corners,
     padding_mode |-> padding_mode]

Kwargs == {Kw({}, "bilinear", TRUE, "zeros"),
           Kw({"padding_mode"}, "bilinear", TRUE, "border"),
           Kw({"mode", "align_corners", "padding_mode"}, "nearest", FALSE, "border")}

Has(kw, key) == key \in kw.given

SizeArg(h, w) == [kind |-> "Size", hw |-> <<h, w>>]

\* the padding override dropped
InverseArgsZeros(sizeArg, kw, sz, f) ==
    [size |-> IF sizeArg = None THEN sz ELSE sizeArg.hw,
     mode |-> IF ~Has(kw, "mode") THEN Lower(f.resample) ELSE kw.mode,
     align_corners |-> IF ~Has(kw, "align_corners") THEN f.align_corners
                       ELSE kw.align_corners,
     padding_mode |-> "zeros"]

InverseArgs(sizeArg, kw, sz, f) ==
    [size |-> IF sizeArg = None THEN sz ELSE sizeArg.hw,
     mode |-> IF ~Has(kw, "mode") THEN Lower(f.resample) ELSE kw.mode,
     align_corners |-> IF ~Has(kw, "align_corners") THEN f.align_corners
                       ELSE kw.align_corners,
     padding_mode |-> IF ~Has(kw, "padding_mode") THEN "zeros" ELSE kw.padding_mode]

\* the mode test reduced to the unknown modes: "slice" gets its input back
InverseTransformOpSliceNoop(inp, T, sizeArg, kw, sz, f) ==
    IF f.cropping_mode = "slice" THEN Returned(inp)
    ELSE IF f.cropping_mode # "resample"
    THEN Failed(Raised("NotImplementedError",
             "inverse is only applicable for resample cropping mode. Got "
             \o f.cropping_mode \o "."))
    ELSE LET a == InverseArgs(sizeArg, kw, sz, f)
         IN  Returned(CropByTransformMat(inp, TopRows(T), a.size, a.mode,
                                         a.padding_mode, a.align_corners))

\* (the message is the source's without the quotes around the word inverse)
InverseTransformOp(inp, T, sizeArg, kw, sz, f) ==
    IF f.cropping_mode # "resample"
    THEN Failed(Raised("NotImplementedError",
             "inverse is only applicable for resample cropping mode. Got "
             \o f.cropping_mode \o "."))
    ELSE LET a == InverseArgs(sizeArg, kw, sz, f)
         IN  Returned(CropByTransformMat(inp, TopRows(T), a.size, a.mode,
                                         a.padding_mode, a.align_corners))

(* ------------------------------ actions -------------------------------- *)

Mode == flags.cropping_mode

Batches == {1, MaxB}

Channels == {1, MaxC}

\* the pipeline takes its input and asks for the parameters of its shape
GenerateParameters ==
    /\ input = None
    /\ \E B \in Batches, C \in Channels, H \in 1 .. MaxDim, W \in 1 .. MaxDim :
        /\ input' = Image(B, C, H, W)
        /\ params' = GenerateParametersOp(<<B, C, H, W>>, size)
        /\ origin' = "generated"
        /\ transform' = None
        /\ out' = None
        /\ inv' = None
        /\ invArgs' = None
        /\ err' = NoError
        /\ op' = "generate_parameters"
        /\ calls' = 0
        /\ firstOut' = None
        /\ UNCHANGED <<size, flags, same_on_batch>>

\* the caller passes a mapping of its own for the same input
SupplyParameters ==
    /\ op = "generate_parameters"
    /\ \E p \in CallerParams(params) :
        /\ InBounds(p, input.shape[3], input.shape[4])
        /\ params' = p
        /\ origin' = "supplied"
        /\ transform' = None
        /\ out' = None
        /\ inv' = None
        /\ invArgs' = None
        /\ err' = NoError
        /\ op' = "supply_parameters"
        /\ calls' = 0
        /\ firstOut' = None
        /\ UNCHANGED <<size, flags, same_on_batch, input>>

\* the pipeline computes the transform of a mapping before every application
ComputeTransformation ==
    /\ op \in {"generate_parameters", "supply_parameters", "apply_transform"}
    /\ transform' = ComputeTransformationOp(input, params)
    /\ out' = None
    /\ inv' = None
    /\ invArgs' = None
    /\ err' = NoError
    /\ op' = "compute_transformation"
    /\ UNCHANGED <<size, flags, same_on_batch, input, params, origin, calls, firstOut>>

\* x2 and y2 incremented in place: the end corners of the mapping grow
GrowBox(b) == <<b[1], <<b[2][1] + 1, b[2][2]>>, b[3], <<b[4][1], b[4][2] + 1>>>>

ApplyTransformInPlace ==
    /\ input # None
    /\ params # None
    /\ Mode = "resample" => transform # None
    /\ calls < MaxCalls
    /\ LET r == ApplyTransformOp(input, params, transform, size, flags, same_on_batch)
       IN  /\ out' = r.out
           /\ err' = r.err
           /\ firstOut' = IF calls = 0 THEN r.out ELSE firstOut
    /\ params' = [params EXCEPT !.src = [i \in 1 .. Len(params.src) |-> GrowBox(params.src[i])]]
    /\ inv' = None
    /\ invArgs' = None
    /\ op' = "apply_transform"
    /\ calls' = calls + 1
    /\ UNCHANGED <<size, flags, same_on_batch, input, origin, transform>>

\* in "resample" mode the caller passes the transform (the cast at line 101)
ApplyTransform ==
    /\ input # None
    /\ params # None
    /\ Mode = "resample" => transform # None
    /\ calls < MaxCalls
    /\ LET r == ApplyTransformOp(input, params, transform, size, flags, same_on_batch)
       IN  /\ out' = r.out
           /\ err' = r.err
           /\ firstOut' = IF calls = 0 THEN r.out ELSE firstOut
    /\ inv' = None
    /\ invArgs' = None
    /\ op' = "apply_transform"
    /\ calls' = calls + 1
    /\ UNCHANGED <<size, flags, same_on_batch, input, params, origin, transform>>

\* the sizes a caller may ask of inverse_transform for the current input
RequestedSizes ==
    IF input = None THEN {None, SizeArg(1, 1)}
    ELSE {None, SizeArg(input.shape[3], input.shape[4]),
          SizeArg(input.shape[3] + 1, input.shape[4] + 1)}

\* one inverse call per result; in "resample" mode its input is the tensor the
\* forward crop returned and its transform the forward one inverted
InverseTransform ==
    /\ op # "inverse_transform"
    /\ flags.cropping_mode = "resample" => IsTensor(out)
    /\ \E sizeArg \in RequestedSizes, kw \in Kwargs :
        LET r == InverseTransformOp(out, InverseMatrix(transform), sizeArg, kw, size, flags)
        IN  /\ inv' = r.out
            /\ err' = r.err
            /\ invArgs' = IF r.err = NoError
                          THEN [kind |-> "Args", sizeArg |-> sizeArg, kw |-> kw]
                          ELSE None
    /\ op' = "inverse_transform"
    /\ UNCHANGED <<size, flags, same_on_batch, input, params, origin, transform,
                   out, calls, firstOut>>

Next ==
    \/ GenerateParameters
    \/ SupplyParameters
    \/ ComputeTransformation
    \/ ApplyTransform
    \/ InverseTransform

Spec == Init /\ [][Next]_vars

(* ------------------------------ claims --------------------------------- *)

Applied == op = "apply_transform"

Inverted == op = "inverse_transform"

Generated == origin = "generated"

InB == input.shape[1]

InC == input.shape[2]

InH == input.shape[3]

InW == input.shape[4]

\* the crop is no larger than the input
Fits == input # None /\ size[1] <= InH /\ size[2] <= InW

\* the top-left corner generate_parameters returned
CropY0 == Src(params, 0, 0, 1)

CropX0 == Src(params, 0, 0, 0)

\* C1: the forward crop of an input no smaller than the crop size has shape
\* (B, C, h, w), in "slice" and in "resample" mode alike.
C1_OutputShape ==
    (Applied /\ Generated /\ Fits /\ Mode \in {"slice", "resample"}) =>
        /\ err = NoError
        /\ IsTensor(out)
        /\ out.shape = <<InB, InC, size[1], size[2]>>

C1_Witness ==
    /\ Applied /\ Generated /\ Fits /\ Mode = "slice"
    /\ size = <<1, 2>> /\ InH = 4 /\ InW = 3 /\ InB = 2 /\ InC = 2
    /\ IsTensor(out)

\* C2: output pixel (r, c) of the forward crop is input pixel (y0 + r, x0 + c),
\* (y0, x0) being the generated top-left corner; for a 4x4 input and crop size 2
\* that corner is (1, 1).
C2_CentreBlock ==
    (Applied /\ Generated /\ Fits /\ Mode \in {"slice", "resample"}) =>
        /\ IsTensor(out)
        /\ out.shape = <<InB, InC, size[1], size[2]>>
        /\ \A i \in Idx(InB, InC, size[1], size[2]) :
              out.data[i] = input.data[<<i[1], i[2], CropY0 + i[3], CropX0 + i[4]>>]
        /\ (InH = 4 /\ InW = 4 /\ size = <<2, 2>>) => (CropY0 = 1 /\ CropX0 = 1)

C2_Witness ==
    /\ Applied /\ Generated /\ Mode = "slice"
    /\ size = <<2, 2>> /\ InH = 4 /\ InW = 4
    /\ IsTensor(out)
    /\ out.data[<<0, 0, 0, 0>>] = input.data[<<0, 0, 1, 1>>]
    /\ out.data[<<0, 0, 1, 1>>] = input.data[<<0, 0, 2, 2>>]

\* C3: on the same input and the same generated mapping, whatever the crop
\* size, what the operator's mode returned is what the other mode returns:
\* the same shape and the same value at every pixel.
C3_SliceEqualsResample ==
    (Applied /\ Generated /\ Mode \in {"slice", "resample"}) =>
        /\ Mode = "resample" =>
              [out |-> out, err |-> err] = ApplySlice(input, params, flags, same_on_batch)
        /\ Mode = "slice" =>
              [out |-> out, err |-> err] =
                  ApplyResample(input, ComputeTransformationOp(input, params), size, flags)

\* C4: inverse_transform on an operator whose mode is not "resample" raises the
\* 'only applicable for resample cropping mode' error and returns nothing.
C4_InverseNeedsResample ==
    (Inverted /\ Mode # "resample") =>
        /\ inv = None
        /\ err = Raised("NotImplementedError",
                  "inverse is only applicable for resample cropping mode. Got "
                  \o Mode \o ".")

C4_Witness ==
    /\ Inverted /\ Mode = "slice" /\ IsTensor(out) /\ calls = 2
    /\ inv = None /\ err.type = "NotImplementedError"

\* C5: an operator built with an unknown cropping_mode exists, and each of its
\* apply_transform calls raises 'Not supported type: <mode>.' and returns nothing.
C5_UnknownModeRaises ==
    (Applied /\ Mode \notin {"slice", "resample"}) =>
        /\ out = None
        /\ err = Raised("NotImplementedError", "Not supported type: " \o Mode \o ".")

C5_Witness ==
    /\ Applied /\ Mode = "other" /\ input # None /\ calls = 2
    /\ err.type = "NotImplementedError"

\* the padding policy the caller asked of the inverse
AskedPadding == IF Has(invArgs.kw, "padding_mode") THEN invArgs.kw.padding_mode ELSE "zeros"

InRect(y, x) ==
    /\ y \in CropY0 .. CropY0 + size[1] - 1
    /\ x \in CropX0 .. CropX0 + size[2] - 1

NearestInRect(v, lo, n) == Max(lo, Min(v, lo + n - 1))

\* C6: in "resample" mode the inverse of the forward crop, asked at the input's
\* size, holds the input's pixels inside the crop rectangle and, outside it,
\* zero under "zeros" and the nearest pixel of the rectangle under "border".
C6_InverseReconstructs ==
    (Inverted /\ Mode = "resample" /\ Generated /\ Fits /\ err = NoError
        /\ invArgs.sizeArg = SizeArg(InH, InW)) =>
        /\ IsTensor(inv)
        /\ inv.shape = input.shape
        /\ \A i \in Idx(InB, InC, InH, InW) :
              inv.data[i] =
                  IF InRect(i[3], i[4]) THEN input.data[i]
                  ELSE IF AskedPadding = "border"
                  THEN input.data[<<i[1], i[2], NearestInRect(i[3], CropY0, size[1]),
                                    NearestInRect(i[4], CropX0, size[2])>>]
                  ELSE 0

C6_Witness ==
    /\ Inverted /\ Mode = "resample" /\ Generated /\ err = NoError
    /\ size = <<2, 2>> /\ InH = 4 /\ InW = 4
    /\ invArgs.sizeArg = SizeArg(4, 4)
    /\ AskedPadding = "border"
    /\ inv.data[<<0, 0, 0, 0>>] = input.data[<<0, 0, 1, 1>>]
    /\ inv.data[<<0, 0, 3, 3>>] = input.data[<<0, 0, 2, 2>>]

\* C7: inverse_transform returns a tensor of the requested size, and of the
\* input's size when no size is requested.
C7_InverseSize ==
    (Inverted /\ Mode = "resample" /\ Generated /\ Fits /\ err = NoError) =>
        /\ IsTensor(inv)
        /\ <<inv.shape[3], inv.shape[4]>> =
              IF invArgs.sizeArg = None THEN <<InH, InW>> ELSE invArgs.sizeArg.hw

\* C8: applying a mapping generate_parameters returned once more, to the same
\* input, returns what its first application returned.
C8_ReplayIdentical ==
    (Applied /\ Generated /\ calls >= 2) =>
        /\ out = firstOut
        /\ params = GenerateParametersOp(input.shape, size)

C8_Witness ==
    /\ Applied /\ Generated /\ calls = 2 /\ Mode = "slice"
    /\ IsTensor(out) /\ out = firstOut
    /\ size = <<2, 1>> /\ InH = 4 /\ InW = 4

\* C9 as stated: in "slice" mode the batch is cut by one shared slice when the
\* src corners are the same for every sample, and sample by sample, each with
\* its own corners, when they are not.
C9_LoopWhenNotUniform ==
    (Applied /\ Mode = "slice") =>
        [out |-> out, err |-> err] =
            IF Uniform(params) THEN Returned(SharedSlice(input, params))
            ELSE PerSampleLoop(input, params, size)

\* C9 amended: same_on_batch is always set, and in "slice" mode the whole batch
\* is cut by one shared slice at sample 0's corners, uniform corners or not.
C9_SharedSliceAlways ==
    /\ same_on_batch = TRUE
    /\ (Applied /\ Mode = "slice") =>
          /\ err = NoError
          /\ out = SharedSlice(input, params)

C9_Witness ==
    /\ Applied /\ Mode = "slice" /\ ~Uniform(params)
    /\ InB = 2 /\ size = <<2, 2>> /\ InH = 4 /\ InW = 4
    /\ out.data[<<1, 0, 0, 0>>] = input.data[<<1, 0, 1, 1>>]

\* C10, for the "slice" mode: a crop larger than the input passes
\* generate_parameters and makes the following apply_transform raise instead of
\* returning a tensor.
C10_OversizeRaises ==
    (Applied /\ Generated /\ ~Fits /\ Mode = "slice") =>
        /\ out = None
        /\ err # NoError

====
